---- MODULE Spec2Model ----
(***************************************************************************)
(* The campaign-analysis proxy: the serverless handler of api/analyze.ts,  *)
(* the browser-side caller analyzeCampaignsWithGemini, the score colour    *)
(* and recommendation badge of the presenter, and the CSV export.          *)
(*                                                                         *)
(* Numbers (scores) are kept in hundredths: 4.25 is 425.                   *)
(***************************************************************************)
EXTENDS Integers, Sequences, FiniteSets, TLC

VARIABLES
    API_KEY,        \* process.env.API_KEY as read once at module load
    pc,             \* the handler's position: idle, awaiting (generateContent), done
    req,            \* the request the handler run was invoked with
    prompt,         \* the prompt handed to generateContent
    geminiResponse, \* how the awaited generateContent call settled
    inflight,       \* the request fetch has posted and the endpoint has not yet received
    sent,           \* the responses sent through res, in order
    oracleCalls,    \* the number of ai.models.generateContent calls of the run
    cpc,            \* analyzeCampaignsWithGemini's position: idle, awaitFetch, returned, thrown
    fetchCount,     \* the number of fetch('/api/analyze') calls issued
    clientOutcome,  \* what analyzeCampaignsWithGemini returned or threw
    response,       \* the Response fetch resolved with
    csvIn,          \* the result set handed to convertToCSV
    csvOut,         \* what convertToCSV produced
    detailsIn,      \* the details handed to getOptionalDetailsInstructions
    detailsOut      \* what getOptionalDetailsInstructions returned

vars == <<API_KEY, pc, req, prompt, geminiResponse, sent, oracleCalls, inflight, cpc, fetchCount,
          clientOutcome, response, csvIn, csvOut, detailsIn, detailsOut>>

handlerVars == <<API_KEY, pc, req, prompt, geminiResponse, sent, oracleCalls>>
clientVars == <<inflight, cpc, fetchCount, clientOutcome, response>>
csvVars == <<csvIn, csvOut>>
detailsVars == <<detailsIn, detailsOut>>

---------------------------------------------------------------------------
(* Bounds of the model *)

\* the longest campaigns array a request carries
MaxCampaigns == 2
\* the longest results array the oracle answers with
MaxResults == 2

---------------------------------------------------------------------------
(* JavaScript values, as JSON carries them *)

Undefined == [t |-> "undefined"]
Null == [t |-> "null"]
Str(s) == [t |-> "string", v |-> s]
Num(n) == [t |-> "number", v |-> n]
Arr(a) == [t |-> "array", v |-> a]
Obj(f) == [t |-> "object", v |-> f]

\* ToBoolean, as `!x`, `a && b` and `if (x)` apply it
Truthy(x) ==
    CASE x.t \in {"undefined", "null"} -> FALSE
      [] x.t = "string" -> x.v # ""
      [] x.t = "number" -> x.v # 0
      [] OTHER -> TRUE

\* property read o.k (or a destructured field) of a value that is neither
\* null nor undefined: a missing property reads as undefined
Get(o, k) ==
    IF o.t = "object" /\ k \in DOMAIN o.v THEN o.v[k] ELSE Undefined

\* reading a property of null or undefined throws a TypeError
ThrowsOnRead(o) == o.t \in {"undefined", "null"}

\* SeqsUpTo(S, n): the arrays over S of length at most n
SeqsUpTo(S, n) == UNION {[1..k -> S] : k \in 0..n}

---------------------------------------------------------------------------
(* types.ts *)

audienceOptions ==
    << [value |-> "general", label |-> "General Consumers (B2C)"],
       [value |-> "genz", label |-> "Gen Z / Young Adults"],
       [value |-> "millennials", label |-> "Millennials"],
       [value |-> "parents", label |-> "Parents / Families"],
       [value |-> "b2b", label |-> "B2B Professionals / Decision Makers"],
       [value |-> "smb", label |-> "Small Business Owners"],
       [value |-> "custom", label |-> "Custom..."] >>

toneOptions ==
    << [value |-> "professional", label |-> "Professional / Authoritative"],
       [value |-> "friendly", label |-> "Friendly / Conversational"],
       [value |-> "humorous", label |-> "Humorous / Witty"],
       [value |-> "empathetic", label |-> "Empathetic / Caring"],
       [value |-> "inspirational", label |-> "Inspirational / Aspirational"],
       [value |-> "urgent", label |-> "Direct / Urgent"],
       [value |-> "custom", label |-> "Custom..."] >>

\* options.find(opt => opt.value === x)?.label
FindLabel(options, x) ==
    LET hits == {i \in 1..Len(options) : Str(options[i].value) = x}
    IN  IF hits = {} THEN Undefined
        ELSE Str(options[CHOOSE i \in hits : \A j \in hits : i <= j].label)

---------------------------------------------------------------------------
(* api/analyze.ts: the prompt builders *)

NeutralInstruction == "No specific objective provided"

\* the switch without its default case: an objective that matches no case
\* leaves the function with no instruction
getMarketingObjectiveInstructions_NoDefault(objective) ==
    CASE objective = Str("awareness") -> "Create Awareness"
      [] objective = Str("consideration") -> "Drive Consideration"
      [] objective = Str("sales") -> "Drive Sales (Conversion)"
      [] objective = Str("loyalty") -> "Build Loyalty (Retention)"
      [] OTHER -> "undefined"

getMarketingObjectiveInstructions(objective) ==
    CASE objective = Str("awareness") -> "Create Awareness"
      [] objective = Str("consideration") -> "Drive Consideration"
      [] objective = Str("sales") -> "Drive Sales (Conversion)"
      [] objective = Str("loyalty") -> "Build Loyalty (Retention)"
      [] OTHER -> NeutralInstruction

\* getAudienceText without its 'custom' case: 'custom' is looked up among the
\* options like any preset
getAudienceText_NoCustom(details) ==
    IF ~Truthy(Get(details, "targetAudience")) THEN Null
    ELSE FindLabel(audienceOptions, Get(details, "targetAudience"))

getAudienceText(details) ==
    IF ~Truthy(Get(details, "targetAudience")) THEN Null
    ELSE IF Get(details, "targetAudience") = Str("custom")
         THEN Get(details, "customTargetAudience")
    ELSE FindLabel(audienceOptions, Get(details, "targetAudience"))

getBrandToneText(details) ==
    IF ~Truthy(Get(details, "brandTone")) THEN Null
    ELSE IF Get(details, "brandTone") = Str("custom")
         THEN Get(details, "customBrandTone")
    ELSE FindLabel(toneOptions, Get(details, "brandTone"))

\* one line of the optional block: its bold caption and the quoted text
DetailLine(caption, text) == [caption |-> caption, text |-> text.v]

\* the returned string: "" (block FALSE) or the "Optional Campaign Details"
\* block holding the lines appended to `instructions`
getOptionalDetailsInstructions(details) ==
    LET a == getAudienceText(details)
        b == getBrandToneText(details)
        k == Get(details, "keyMessage")
        instructions ==
            (IF Truthy(a) THEN <<DetailLine("Target Audience", a)>> ELSE <<>>)
            \o (IF Truthy(b) THEN <<DetailLine("Brand Tone/Voice", b)>> ELSE <<>>)
            \o (IF Truthy(k) THEN <<DetailLine("Key Message/USP", k)>> ELSE <<>>)
    IN  [block |-> instructions # <<>>, lines |-> instructions]

\* getOptionalDetailsInstructions has not been called
NoInstructions == [called |-> FALSE]

\* ctas.map(c => c['CTA Text']) throws a TypeError when ctas has no map
\* (it is no array) or an element is null
CtasMapThrows(ctas) ==
    \/ ctas.t # "array"
    \/ \E i \in 1..Len(ctas.v) : ThrowsOnRead(ctas.v[i])

CtasMap(ctas) == [i \in 1..Len(ctas.v) |-> Get(ctas.v[i], "CTA Text")]

NoPrompt == [built |-> FALSE]

BuildPrompt(campaigns, keywords, ctas, objective, details) ==
    [built |-> TRUE,
     objectiveInstructions |-> getMarketingObjectiveInstructions(objective),
     optionalDetailsInstructions |-> getOptionalDetailsInstructions(details),
     campaigns |-> campaigns,
     keywords |-> keywords,
     ctaTexts |-> CtasMap(ctas)]

---------------------------------------------------------------------------
(* api/analyze.ts: the responses of the handler *)

\* res.status(s).json(body)
JsonResponse(s, body) == [status |-> s, headers |-> {}, kind |-> "json", body |-> body]

\* the 405 sent without the setHeader call before it
MethodNotAllowed_NoAllowHeader(method) ==
    [status |-> 405, headers |-> {}, kind |-> "text",
     body |-> [prefix |-> "Method", method |-> method, suffix |-> "Not Allowed"]]

\* res.setHeader('Allow', ['POST']); res.status(405).end(`Method ... Not Allowed`)
MethodNotAllowed(method) ==
    [status |-> 405, headers |-> {<<"Allow", "POST">>}, kind |-> "text",
     body |-> [prefix |-> "Method", method |-> method, suffix |-> "Not Allowed"]]

ApiKeyMissing ==
    JsonResponse(500, Obj([error |-> "API_KEY environment variable not set on the server."]))

MissingParameters ==
    JsonResponse(400, Obj([error |-> "Missing required parameters in request body."]))

\* the catch block: error.message of an Error, a fixed text for any other thrown value
Caught(error) ==
    JsonResponse(500, Obj([error |-> "Failed to analyze campaigns.",
                           details |-> IF error.isError THEN error.message
                                       ELSE "An unknown server error occurred."]))

\* the values the handler's own code throws into the catch block
BodyTypeError == [isError |-> TRUE, message |-> "TypeError: cannot destructure req.body"]
CtasTypeError == [isError |-> TRUE, message |-> "TypeError: ctas.map"]
TextTypeError == [isError |-> TRUE, message |-> "TypeError: geminiResponse.text.trim"]
SyntaxError == [isError |-> TRUE, message |-> "SyntaxError: JSON.parse"]
InvalidStructure == [isError |-> TRUE, message |-> "Invalid response structure from Gemini API."]

---------------------------------------------------------------------------
(* api/analyze.ts: what the prompt tells the oracle to compute *)

\* the weights of the weighted average, in hundredths
WeightSubjectiveFit == 25
WeightClarityAndImpact == 20
WeightCombinedEmotion == 20
WeightCtaStrength == 15
WeightTrendRelevance == 10
WeightSteppsShareability == 10

\* the recommendation thresholds 4.0 and 3.0, in hundredths
StrongThreshold == 400
GoodThreshold == 300

\* x / 100 rounded to the nearest integer, halves up
RoundDiv100(x) == (x + 50) \div 100

\* the weighted average of a record's six component scores, rounded to two
\* decimal places
Composite(r) ==
    RoundDiv100(WeightSubjectiveFit * r.subjectiveFitScore
                + WeightClarityAndImpact * r.clarityAndImpactScore
                + WeightCombinedEmotion * r.combinedEmotionScore
                + WeightCtaStrength * r.ctaStrengthScore
                + WeightTrendRelevance * r.trendRelevanceScore
                + WeightSteppsShareability * r.steppsShareabilityScore)

\* a recommendation string: its leading mark and its wording
Strong == [mark |-> "check", text |-> "Strong potential to succeed"]
Good == [mark |-> "warning", text |-> "Good, but revise key elements"]
Rework == [mark |-> "cross", text |-> "Needs rework before launch"]
Labels == {Strong, Good, Rework}

Recommendation(score) ==
    IF score >= StrongThreshold THEN Strong
    ELSE IF score >= GoodThreshold THEN Good
    ELSE Rework

---------------------------------------------------------------------------
(* the presenter: ScoreCard and RecommendationBadge *)

getScoreColor(value) ==
    IF value >= 400 THEN "green"
    ELSE IF value >= 300 THEN "yellow"
    ELSE "red"

\* the badge colour, chosen by what the recommendation string starts with
RecommendationBadge(recommendation) ==
    IF recommendation.mark = "check" THEN "green"
    ELSE IF recommendation.mark = "warning" THEN "yellow"
    ELSE "red"

---------------------------------------------------------------------------
(* the inputs: requests, and what the oracle may answer *)

Msgs == {"m1", "m2"}

CampaignsInputs ==
    {Undefined} \cup {Arr(a) : a \in SeqsUpTo({Str(m) : m \in Msgs}, MaxCampaigns)}

KeywordsInputs == {Undefined, Arr(<<Str("k1")>>)}

Cta == Obj("CTA Text" :> Str("Buy now"))

\* absent, an array of CTAs, an array holding null, an object that is no array
CtasInputs == {Undefined, Arr(<<Cta>>), Arr(<<Null>>), Obj("0" :> Cta)}

Objectives == {"awareness", "consideration", "sales", "loyalty"}

\* absent, the empty string, the four objectives, an unrecognised one
ObjectiveInputs ==
    {Undefined, Str(""), Str("brand")} \cup {Str(o) : o \in Objectives}

DetailsInputs ==
    {Undefined,
     Obj(<<>>),
     Obj([targetAudience |-> Str("custom"), customTargetAudience |-> Str("chefs"),
          brandTone |-> Str("friendly"), keyMessage |-> Str("fast")])}

\* req.body: none at all, or an object of which any field may be absent
Bodies ==
    {Undefined} \cup
    {Obj([campaigns |-> c, keywords |-> k, ctas |-> a, objective |-> o, details |-> d]) :
        c \in CampaignsInputs, k \in KeywordsInputs, a \in CtasInputs,
        o \in ObjectiveInputs, d \in DetailsInputs}

Methods == {"POST", "GET"}

Requests == [method : Methods, body : Bodies]

NoRequest == [method |-> "none", body |-> Undefined]

ResultFields ==
    {"campaignMessage", "combinedEmotionScore", "clarityAndImpactScore",
     "trendRelevanceScore", "steppsShareabilityScore", "ctaStrengthScore",
     "subjectiveFitScore", "weightedCampaignConfidenceScore", "recommendation"}

\* the six component scores of a record
Scores(emotion, clarity, trend, stepps, cta, fit) ==
    [combinedEmotionScore |-> emotion, clarityAndImpactScore |-> clarity,
     trendRelevanceScore |-> trend, steppsShareabilityScore |-> stepps,
     ctaStrengthScore |-> cta, subjectiveFitScore |-> fit]

Uniform(s) == Scores(s, s, s, s, s, s)

\* a record of the results array: its message, component scores, composite
\* and recommendation
ResultRecord(m, s, w, r) ==
    Obj([campaignMessage |-> m,
         combinedEmotionScore |-> s.combinedEmotionScore,
         clarityAndImpactScore |-> s.clarityAndImpactScore,
         trendRelevanceScore |-> s.trendRelevanceScore,
         steppsShareabilityScore |-> s.steppsShareabilityScore,
         ctaStrengthScore |-> s.ctaStrengthScore,
         subjectiveFitScore |-> s.subjectiveFitScore,
         weightedCampaignConfidenceScore |-> w, recommendation |-> r])

\* what the oracle may put in a record: scores with the composite and the
\* recommendation the prompt asks for (the first two), a composite of its
\* own, or a recommendation of its own
OracleRecords ==
    {ResultRecord(m, Uniform(500), 500, Strong) : m \in Msgs}
    \cup {ResultRecord(m, Uniform(300), 300, Good) : m \in Msgs}
    \cup {ResultRecord(m, Scores(450, 400, 350, 200, 500, 300), 250, Rework) : m \in Msgs}
    \cup {ResultRecord(m, Uniform(500), 500, Rework) : m \in Msgs}

\* the value under the key "results"
ResultsValues ==
    {Null, Str(""), Str("oops"), Obj(<<>>)}
    \cup {Arr(a) : a \in SeqsUpTo(OracleRecords, MaxResults)}

\* the values the response text may parse to
ParsedValues ==
    {Null, Num(7), Arr(<<>>), Obj([other |-> Null])}
    \cup {Obj([results |-> x]) : x \in ResultsValues}

\* geminiResponse.text: undefined, or a string that is JSON for a value or is not JSON
OracleTexts ==
    {Undefined, Str([syntax |-> "invalid"])}
    \cup {Str([syntax |-> "json", value |-> p]) : p \in ParsedValues}

\* generateContent rejects (with an Error or another value) or resolves
OracleOutcomes ==
    {[kind |-> "reject", error |-> [isError |-> TRUE, message |-> "generateContent failed"]],
     [kind |-> "reject", error |-> [isError |-> FALSE, message |-> ""]]}
    \cup {[kind |-> "resolve", text |-> t] : t \in OracleTexts}

NotSettled == [kind |-> "none"]

\* JSON.parse(text): throws a SyntaxError or gives the value
JSONparse(text) ==
    IF text.v.syntax = "json" THEN [threw |-> FALSE, value |-> text.v.value]
    ELSE [threw |-> TRUE]

---------------------------------------------------------------------------
(* api/analyze.ts: handler *)

\* a response sent with no return after it, so that the handler runs on and
\* its catch block answers a second time
Respond_NoReturn(r) == sent' = sent \o <<r, Caught(InvalidStructure)>>

\* res.status(...).json(...) or .end(...), each behind a return
Respond(r) == sent' = Append(sent, r)

\* the validation with the check of details left out
MissingRequired_NoDetails(campaigns, keywords, ctas, objective, details) ==
    \/ ~Truthy(campaigns)
    \/ ~Truthy(keywords)
    \/ ~Truthy(ctas)
    \/ ~Truthy(objective)

\* !campaigns || !keywords || !ctas || !objective || !details
MissingRequired(campaigns, keywords, ctas, objective, details) ==
    \/ ~Truthy(campaigns)
    \/ ~Truthy(keywords)
    \/ ~Truthy(ctas)
    \/ ~Truthy(objective)
    \/ ~Truthy(details)

\* the handler from its entry to the await of generateContent, or to the
\* response it returns before
HandlerStart(r) ==
    /\ req' = r
    /\ IF r.method # "POST" THEN
           /\ Respond(MethodNotAllowed(r.method))
           /\ pc' = "done"
           /\ UNCHANGED <<prompt, oracleCalls>>
       ELSE IF ~Truthy(API_KEY) THEN
           /\ Respond(ApiKeyMissing)
           /\ pc' = "done"
           /\ UNCHANGED <<prompt, oracleCalls>>
       ELSE IF ThrowsOnRead(r.body) THEN
           /\ Respond(Caught(BodyTypeError))
           /\ pc' = "done"
           /\ UNCHANGED <<prompt, oracleCalls>>
       ELSE LET campaigns == Get(r.body, "campaigns")
                keywords == Get(r.body, "keywords")
                ctas == Get(r.body, "ctas")
                objective == Get(r.body, "objective")
                details == Get(r.body, "details")
            IN  IF MissingRequired(campaigns, keywords, ctas, objective, details) THEN
                    /\ Respond(MissingParameters)
                    /\ pc' = "done"
                    /\ UNCHANGED <<prompt, oracleCalls>>
                ELSE IF CtasMapThrows(ctas) THEN
                    /\ Respond(Caught(CtasTypeError))
                    /\ pc' = "done"
                    /\ UNCHANGED <<prompt, oracleCalls>>
                ELSE
                    /\ prompt' = BuildPrompt(campaigns, keywords, ctas, objective, details)
                    /\ oracleCalls' = oracleCalls + 1
                    /\ pc' = "awaiting"
                    /\ UNCHANGED sent
    /\ UNCHANGED <<API_KEY, geminiResponse>>

\* the response the handler sends once generateContent has settled with `out`
Settle(out) ==
    IF out.kind = "reject" THEN Caught(out.error)
    ELSE IF ThrowsOnRead(out.text) THEN Caught(TextTypeError)
    ELSE IF JSONparse(out.text).threw THEN Caught(SyntaxError)
    ELSE LET parsedJson == JSONparse(out.text).value
         IN  IF Truthy(parsedJson) /\ Truthy(Get(parsedJson, "results"))
             THEN JsonResponse(200, Get(parsedJson, "results"))
             ELSE Caught(InvalidStructure)

\* generateContent settles and the handler runs to its end
OracleSettles ==
    /\ pc = "awaiting"
    /\ \E out \in OracleOutcomes :
          /\ geminiResponse' = out
          /\ Respond(Settle(out))
    /\ pc' = "done"
    /\ UNCHANGED <<API_KEY, req, prompt, oracleCalls, clientVars, csvVars, detailsVars>>

\* a request that reaches the endpoint from anywhere but analyzeCampaignsWithGemini
DirectRequest ==
    /\ cpc = "idle"
    /\ pc = "idle"
    /\ \E r \in Requests : HandlerStart(r)
    /\ UNCHANGED <<clientVars, csvVars, detailsVars>>

---------------------------------------------------------------------------
(* services/geminiService.ts: analyzeCampaignsWithGemini *)

\* the arguments: typed campaigns, keywords, ctas, objective and details
ClientBodies ==
    {Obj([campaigns |-> c, keywords |-> Arr(<<Str("k1")>>), ctas |-> Arr(<<Cta>>),
          objective |-> Str(o), details |-> d]) :
        c \in CampaignsInputs \ {Undefined}, o \in Objectives,
        d \in DetailsInputs \ {Undefined}}

NoOutcome == [kind |-> "none"]

\* fetch has not resolved
NoResponse == [status |-> 0, headers |-> {}, kind |-> "none", body |-> Undefined]

\* the Error the outer catch throws: its fixed opening and the caught message
CommunicationError(message) ==
    [kind |-> "thrown",
     prefix |-> "Failed to communicate with the analysis service. Please try again later.",
     details |-> message]

\* response.json() of a non-ok response, or the fallback when the body is no JSON
ErrorData(rsp) ==
    IF rsp.kind = "json" THEN rsp.body
    ELSE Obj([error |-> "An unknown error occurred on the server."])

\* errorData.error || `Server responded with status: ${response.status}`
ErrorText(rsp) ==
    IF Truthy(ErrorData(rsp)) /\ "error" \in DOMAIN ErrorData(rsp).v
       /\ ErrorData(rsp).v.error # ""
    THEN [text |-> ErrorData(rsp).v.error, status |-> 0]
    ELSE [text |-> "Server responded with status:", status |-> rsp.status]

\* the call without its `if (!response.ok)`: whatever JSON the response
\* carries is returned as the results
Receive_NoOkCheck(rsp) ==
    IF rsp.kind # "json"
    THEN CommunicationError([text |-> "SyntaxError: response.json", status |-> 0])
    ELSE [kind |-> "returned", results |-> rsp.body]

\* what the call makes of the response rsp fetch resolved with
Receive(rsp) ==
    IF ~(rsp.status \in 200..299) THEN CommunicationError(ErrorText(rsp))
    ELSE IF rsp.kind # "json"
         THEN CommunicationError([text |-> "SyntaxError: response.json", status |-> 0])
    ELSE [kind |-> "returned", results |-> rsp.body]

\* the call: one fetch, POST, the five arguments as the JSON body
ClientCall ==
    /\ cpc = "idle"
    /\ pc = "idle"
    /\ cpc' = "awaitFetch"
    /\ fetchCount' = fetchCount + 1
    /\ \E b \in ClientBodies : inflight' = [method |-> "POST", body |-> b]
    /\ UNCHANGED <<handlerVars, clientOutcome, response, csvVars, detailsVars>>

\* the posted request reaches the endpoint and the handler runs on it
Deliver ==
    /\ cpc = "awaitFetch"
    /\ pc = "idle"
    /\ inflight # NoRequest
    /\ HandlerStart(inflight)
    /\ inflight' = NoRequest
    /\ UNCHANGED <<cpc, fetchCount, clientOutcome, response, csvVars, detailsVars>>

\* fetch rejects (the network fails): the outer catch wraps and rethrows
FetchRejects ==
    /\ cpc = "awaitFetch"
    /\ cpc' = "thrown"
    /\ clientOutcome' = CommunicationError([text |-> "TypeError: Failed to fetch", status |-> 0])
    /\ UNCHANGED <<handlerVars, inflight, fetchCount, response, csvVars, detailsVars>>

\* fetch resolves with the response rsp and the call runs to its end
FetchResolvesWith(rsp) ==
    /\ cpc = "awaitFetch"
    /\ response' = rsp
    /\ clientOutcome' = Receive(rsp)
    /\ cpc' = IF Receive(rsp).kind = "returned" THEN "returned" ELSE "thrown"
    /\ UNCHANGED <<handlerVars, inflight, fetchCount, csvVars, detailsVars>>

\* fetch resolves with the handler's response
FetchResolves ==
    /\ pc = "done"
    /\ FetchResolvesWith(sent[1])

\* The responses fetch may resolve with: those the handler sends, and those
\* of a host that answers in the endpoint's place (a 405 with a text body
\* for the POST, a 502 whose JSON body has no error field).
HostResponses ==
    {MethodNotAllowed("POST"), JsonResponse(502, Obj([message |-> "Bad Gateway"]))}

HandlerResponses ==
    {MethodNotAllowed(m) : m \in Methods \ {"POST"}}
    \cup {ApiKeyMissing, MissingParameters, Caught(BodyTypeError), Caught(CtasTypeError)}
    \cup {Settle(out) : out \in OracleOutcomes}

FetchResponses == HandlerResponses \cup HostResponses

\* fetch resolves with any of these responses
FetchSettles == \E rsp \in FetchResponses : FetchResolvesWith(rsp)

---------------------------------------------------------------------------
(* the presenter: convertToCSV and handleDownload *)

\* A string is a sequence of characters; a field name counts as one
\* character, being free of quotes, commas and line breaks.
DQ == "\""
NL == "\n"
Comma == ","

\* the longest string field of an exported record
MaxLen == 2
\* the largest exported result set
MaxRows == 2

DigitChars == <<"0", "1", "2", "3", "4", "5", "6", "7", "8", "9">>

RECURSIVE Digits(_)
Digits(k) ==
    IF k < 10 THEN <<DigitChars[k + 1]>>
    ELSE Digits(k \div 10) \o <<DigitChars[(k % 10) + 1]>>

\* String(n) of a number held in hundredths: 500 is "5", 330 is "3.3", 425 is "4.25"
NumberToString(n) ==
    Digits(n \div 100)
    \o (IF n % 100 = 0 THEN <<>>
        ELSE IF n % 10 = 0 THEN <<".", DigitChars[((n % 100) \div 10) + 1]>>
        ELSE <<".", DigitChars[((n % 100) \div 10) + 1], DigitChars[(n % 10) + 1]>>)

\* String(value)
StringOf(value) ==
    IF value.t = "number" THEN NumberToString(value.v) ELSE value.v

\* s.replace(/"/g, '""')
RECURSIVE DoubleQuotes(_)
DoubleQuotes(s) ==
    IF s = <<>> THEN <<>>
    ELSE (IF Head(s) = DQ THEN <<DQ, DQ>> ELSE <<Head(s)>>) \o DoubleQuotes(Tail(s))

\* parts.join(sep)
RECURSIVE Join(_, _)
Join(parts, sep) ==
    IF parts = <<>> THEN <<>>
    ELSE IF Len(parts) = 1 THEN parts[1]
    ELSE parts[1] \o <<sep>> \o Join(Tail(parts), sep)

\* A record is its properties in insertion order, each a key and a value.
ObjectKeys(row) == [j \in 1..Len(row) |-> <<row[j].key>>]
ObjectValues(row) == [j \in 1..Len(row) |-> row[j].value]

\* `"${String(value).replace(/"/g, '""')}"`
Quoted(value) == <<DQ>> \o DoubleQuotes(StringOf(value)) \o <<DQ>>

\* Object.keys(data[0]) throws a TypeError when data is empty
convertToCSV(data) ==
    IF data = <<>> THEN [state |-> "threw", text |-> <<>>]
    ELSE LET headers == Join(ObjectKeys(data[1]), Comma)
             rows == [i \in 1..Len(data) |->
                        Join([j \in 1..Len(data[i]) |-> Quoted(ObjectValues(data[i])[j])],
                             Comma)]
         IN  [state |-> "text", text |-> Join(<<headers>> \o rows, NL)]

NoCsv == [state |-> "none", text |-> <<>>]

\* the Download CSV button: convertToCSV(results)
handleDownload ==
    /\ csvOut = NoCsv
    /\ csvOut' = convertToCSV(csvIn)
    /\ UNCHANGED <<handlerVars, clientVars, csvIn, detailsVars>>

\* the exported result sets: records of a message and a score, their keys in
\* the declared order or the other way round
MsgChars == {"a", Comma, DQ, NL}

CsvRecords ==
    UNION {{ <<[key |-> "campaignMessage", value |-> Str(m)],
              [key |-> "weightedCampaignConfidenceScore", value |-> Num(n)]>>,
            <<[key |-> "weightedCampaignConfidenceScore", value |-> Num(n)],
              [key |-> "campaignMessage", value |-> Str(m)]>> } :
           m \in SeqsUpTo(MsgChars, MaxLen), n \in {500, 330, 425}}

CsvInputs == SeqsUpTo(CsvRecords, MaxRows)

---------------------------------------------------------------------------
(* the specification of the handler and its caller *)

Init ==
    /\ API_KEY \in {Undefined, Str(""), Str("key")}
    /\ pc = "idle"
    /\ req = NoRequest
    /\ prompt = NoPrompt
    /\ geminiResponse = NotSettled
    /\ sent = <<>>
    /\ oracleCalls = 0
    /\ inflight = NoRequest
    /\ cpc = "idle"
    /\ fetchCount = 0
    /\ clientOutcome = NoOutcome
    /\ response = NoResponse
    /\ csvIn = <<>>
    /\ csvOut = NoCsv
    /\ detailsIn = Undefined
    /\ detailsOut = NoInstructions

Next ==
    \/ DirectRequest
    \/ ClientCall
    \/ Deliver
    \/ OracleSettles
    \/ FetchRejects
    \/ FetchResolves

Spec == Init /\ [][Next]_vars

---------------------------------------------------------------------------
(* the specification of the export *)

InitCSV ==
    /\ API_KEY = Str("key")
    /\ pc = "idle"
    /\ req = NoRequest
    /\ prompt = NoPrompt
    /\ geminiResponse = NotSettled
    /\ sent = <<>>
    /\ oracleCalls = 0
    /\ inflight = NoRequest
    /\ cpc = "idle"
    /\ fetchCount = 0
    /\ clientOutcome = NoOutcome
    /\ response = NoResponse
    /\ csvIn \in CsvInputs
    /\ csvOut = NoCsv
    /\ detailsIn = Undefined
    /\ detailsOut = NoInstructions

NextCSV == handleDownload

SpecCSV == InitCSV /\ [][NextCSV]_vars

---------------------------------------------------------------------------
(* the specification of analyzeCampaignsWithGemini, the endpoint taken as
   the responses it may give *)

NextClient ==
    \/ ClientCall
    \/ FetchRejects
    \/ FetchSettles

SpecClient == Init /\ [][NextClient]_vars

---------------------------------------------------------------------------
(* the specification of getOptionalDetailsInstructions *)

\* a select's value: absent, empty, one of the options, or a value that is
\* no option
ChoiceInputs(options, unrecognised) ==
    {Undefined, Str(""), Str(unrecognised)}
    \cup {Str(options[i].value) : i \in 1..Len(options)}

\* a free text: absent, empty, or given
TextInputs(text) == {Undefined, Str(""), Str(text)}

DetailsDomain ==
    {Obj([targetAudience |-> ta, customTargetAudience |-> cta,
          brandTone |-> bt, customBrandTone |-> cbt, keyMessage |-> km]) :
        ta \in ChoiceInputs(audienceOptions, "aliens"), cta \in TextInputs("chefs"),
        bt \in ChoiceInputs(toneOptions, "sarcastic"), cbt \in TextInputs("dry"),
        km \in TextInputs("fast")}

\* const optionalDetailsInstructions = getOptionalDetailsInstructions(details)
OptionalDetails ==
    /\ detailsOut = NoInstructions
    /\ detailsOut' = [called |-> TRUE, result |-> getOptionalDetailsInstructions(detailsIn)]
    /\ UNCHANGED <<handlerVars, clientVars, csvVars, detailsIn>>

InitDetails ==
    /\ API_KEY = Str("key")
    /\ pc = "idle"
    /\ req = NoRequest
    /\ prompt = NoPrompt
    /\ geminiResponse = NotSettled
    /\ sent = <<>>
    /\ oracleCalls = 0
    /\ inflight = NoRequest
    /\ cpc = "idle"
    /\ fetchCount = 0
    /\ clientOutcome = NoOutcome
    /\ response = NoResponse
    /\ csvIn = <<>>
    /\ csvOut = NoCsv
    /\ detailsIn \in DetailsDomain
    /\ detailsOut = NoInstructions

NextDetails == OptionalDetails

SpecDetails == InitDetails /\ [][NextDetails]_vars

---------------------------------------------------------------------------
(* what the claims speak of *)

RequiredFields == {"campaigns", "keywords", "ctas", "objective", "details"}

\* the run has a request whose method is POST and whose body is an object
PostWithBody == req.method = "POST" /\ req.body.t = "object"

\* the fields absent from the body
AbsentFields == {f \in RequiredFields : Get(req.body, f) = Undefined}

\* the handler run is over, and res is its one response
Done == pc = "done" /\ Len(sent) = 1
res == sent[1]

\* the response is a 500 whose JSON body has both error and details
ErrorWithDetails(r) ==
    /\ r.status = 500
    /\ r.kind = "json"
    /\ r.body.t = "object"
    /\ {"error", "details"} \subseteq DOMAIN r.body.v

\* the 200 response's body is an array
OkArray == Done /\ res.status = 200 /\ res.body.t = "array"

\* the campaigns array of the request
Campaigns == Get(req.body, "campaigns")

\* generateContent resolved with text that is JSON for an object whose
\* results is an array
OracleHealthy ==
    /\ geminiResponse.kind = "resolve"
    /\ geminiResponse.text.t = "string"
    /\ ~JSONparse(geminiResponse.text).threw
    /\ JSONparse(geminiResponse.text).value.t = "object"
    /\ Get(JSONparse(geminiResponse.text).value, "results").t = "array"

---------------------------------------------------------------------------
(* C1 *)

\* C1 as stated: a POST whose body lacks any of the five fields is answered
\* 400 and the oracle is never called, whatever the server configuration.
C1_MissingFieldIs400 ==
    (PostWithBody /\ AbsentFields # {}) =>
        /\ oracleCalls = 0
        /\ Done
        /\ res.status = 400

\* C1 as amended: for a POST whose body is an object lacking any of the five
\* fields the oracle is never called, whatever the configuration; the answer
\* is the validation error (400) when the API key is set and the
\* configuration error (500) when it is not.
C1_MissingFieldNeverReachesOracle ==
    (PostWithBody /\ AbsentFields # {}) =>
        /\ oracleCalls = 0
        /\ prompt = NoPrompt
        /\ Done
        /\ res = IF Truthy(API_KEY) THEN MissingParameters ELSE ApiKeyMissing

\* a POST with the API key set that lacks details alone was answered 400
C1_Witness ==
    /\ PostWithBody
    /\ Truthy(API_KEY)
    /\ AbsentFields = {"details"}
    /\ Done
    /\ res.status = 400
    /\ oracleCalls = 0

---------------------------------------------------------------------------
(* C2 *)

\* C2: a 200 response whose body is an array holds as many records as the
\* request has campaign messages, the i-th record's campaignMessage being the
\* i-th message.
C2_RecordsMatchCampaigns ==
    OkArray =>
        /\ Len(res.body.v) = Len(Campaigns.v)
        /\ \A i \in 1..Len(res.body.v) :
              Str(res.body.v[i].v.campaignMessage) = Campaigns.v[i]

---------------------------------------------------------------------------
(* C3 *)

\* C3: in a 200 response every record's weightedCampaignConfidenceScore is
\* the weighted average of its six component scores rounded to two decimals.
C3_CompositeIsWeightedAverage ==
    OkArray =>
        \A i \in 1..Len(res.body.v) :
            res.body.v[i].v.weightedCampaignConfidenceScore = Composite(res.body.v[i].v)

---------------------------------------------------------------------------
(* C4 *)

\* C4: in a 200 response every record's recommendation is one of the three
\* labels, the one its composite score selects by the thresholds 4.0 and 3.0,
\* and the score colour and the badge colour are the same tier.
C4_RecommendationByThreshold ==
    OkArray =>
        \A i \in 1..Len(res.body.v) :
            LET r == res.body.v[i].v
            IN  /\ r.recommendation \in Labels
                /\ r.recommendation = Recommendation(r.weightedCampaignConfidenceScore)
                /\ getScoreColor(r.weightedCampaignConfidenceScore)
                       = RecommendationBadge(r.recommendation)

---------------------------------------------------------------------------
(* C5 *)

\* every field but the objective is present and well formed, and the API key is set
OthersPresent ==
    /\ PostWithBody
    /\ Truthy(API_KEY)
    /\ AbsentFields \subseteq {"objective"}
    /\ ~CtasMapThrows(Get(req.body, "ctas"))

\* the objective is none of the four
Unrecognised == Get(req.body, "objective") \notin {Str(o) : o \in Objectives}

\* the run got to the oracle with the neutral instruction and, the oracle
\* being healthy, ended 200
NeutralAndNoError ==
    /\ pc \in {"awaiting", "done"}
    /\ prompt # NoPrompt
    /\ prompt.objectiveInstructions = NeutralInstruction
    /\ oracleCalls = 1
    /\ (Done /\ OracleHealthy) => res.status = 200

\* C5 as stated: a POST whose objective is absent or not one of the four
\* (the rest present) gets the neutral instruction and no error response.
C5_AbsentOrUnrecognisedIsNeutral ==
    (OthersPresent /\ Unrecognised) => NeutralAndNoError

\* C5 as amended: a POST whose objective is present and non-empty but not one
\* of the four (the rest present, the API key set) gets the neutral
\* instruction and, the oracle being healthy, a 200; a POST whose objective
\* is absent or empty is answered 400 and never reaches the oracle.
C5_UnrecognisedIsNeutralAbsentIs400 ==
    (OthersPresent /\ Unrecognised) =>
        IF Truthy(Get(req.body, "objective"))
        THEN NeutralAndNoError
        ELSE Done /\ res = MissingParameters /\ oracleCalls = 0 /\ prompt = NoPrompt

\* a POST with the unrecognised objective "brand" ended 200 on the neutral instruction
C5_Witness ==
    /\ OthersPresent
    /\ Get(req.body, "objective") = Str("brand")
    /\ prompt # NoPrompt
    /\ prompt.objectiveInstructions = NeutralInstruction
    /\ Done
    /\ OracleHealthy
    /\ res.status = 200

---------------------------------------------------------------------------
(* C6 *)

\* an element of a results array that has the fields of a result record
IsResultRecord(x) == x.t = "object" /\ DOMAIN x.v = ResultFields

\* C6: every 200 response body is an array of result records; text that is
\* absent, not JSON, or without an array under "results" ends in a 500.
C6_OkBodyIsArrayOfRecords ==
    Done =>
        /\ res.status = 200 =>
              /\ res.body.t = "array"
              /\ \A i \in 1..Len(res.body.v) : IsResultRecord(res.body.v[i])
        /\ (geminiResponse.kind = "resolve" /\ ~OracleHealthy) => res.status = 500

---------------------------------------------------------------------------
(* C7 *)

\* the run failed on the configuration: a POST met an unset API key
ConfigFailure == req.method = "POST" /\ ~Truthy(API_KEY)

\* the run failed on the oracle: the call rejected, or its text was absent,
\* not JSON, or of invalid structure
OracleFailure ==
    \/ geminiResponse.kind = "reject"
    \/ /\ geminiResponse.kind = "resolve"
       /\ \/ geminiResponse.text.t # "string"
          \/ JSONparse(geminiResponse.text).threw
          \/ ~Truthy(JSONparse(geminiResponse.text).value)
          \/ ~Truthy(Get(JSONparse(geminiResponse.text).value, "results"))

\* C7: every failure caused by the configuration or by the oracle is answered
\* 500 with a JSON body carrying both error and details.
C7_FailuresCarryErrorAndDetails ==
    (Done /\ (ConfigFailure \/ OracleFailure)) => ErrorWithDetails(res)

---------------------------------------------------------------------------
(* C8 *)

\* C8: a request whose method is not POST is answered 405 with Allow: POST,
\* whatever the API key and the body; no oracle call, no other response.
C8_NonPostIs405 ==
    (req # NoRequest /\ req.method # "POST") =>
        /\ Done
        /\ res.status = 405
        /\ <<"Allow", "POST">> \in res.headers
        /\ oracleCalls = 0
        /\ geminiResponse = NotSettled

\* a GET with the API key unset and a body lacking fields was answered 405
C8_Witness ==
    /\ req.method = "GET"
    /\ ~Truthy(API_KEY)
    /\ req.body.t = "object"
    /\ AbsentFields # {}
    /\ Done
    /\ res.status = 405

---------------------------------------------------------------------------
(* C10 *)

\* C10: a handler run sends exactly one response and calls the oracle at most
\* once, a failed oracle call being answered 500 with no second call; a call
\* of analyzeCampaignsWithGemini issues exactly one POST and throws on a
\* failure with no second attempt.
C10_OneResponseNoRetry ==
    /\ Len(sent) = (IF pc = "done" THEN 1 ELSE 0)
    /\ oracleCalls = (IF geminiResponse # NotSettled \/ pc = "awaiting" THEN 1 ELSE 0)
    /\ OracleFailure => (Done /\ res.status = 500 /\ oracleCalls = 1)
    /\ fetchCount = (IF cpc = "idle" THEN 0 ELSE 1)
    /\ cpc # "idle" => (inflight = NoRequest <=> req # NoRequest)
    /\ cpc = "thrown" => (clientOutcome.kind = "thrown" /\ fetchCount = 1)

\* the oracle call failed and the caller threw, after one call and one fetch
C10_Witness ==
    /\ geminiResponse.kind = "reject"
    /\ Done
    /\ res.status = 500
    /\ oracleCalls = 1
    /\ cpc = "thrown"
    /\ fetchCount = 1

---------------------------------------------------------------------------
(* C9 *)

\* reading CSV text back (RFC 4180): the rows, each the list of its fields
RECURSIVE ParseFrom(_, _, _, _, _, _)
ParseFrom(text, i, inQuotes, field, row, rows) ==
    IF i > Len(text) THEN Append(rows, Append(row, field))
    ELSE IF inQuotes THEN
        IF text[i] = DQ
        THEN IF i < Len(text) /\ text[i + 1] = DQ
             THEN ParseFrom(text, i + 2, TRUE, Append(field, DQ), row, rows)
             ELSE ParseFrom(text, i + 1, FALSE, field, row, rows)
        ELSE ParseFrom(text, i + 1, TRUE, Append(field, text[i]), row, rows)
    ELSE IF text[i] = DQ THEN ParseFrom(text, i + 1, TRUE, field, row, rows)
    ELSE IF text[i] = Comma THEN ParseFrom(text, i + 1, FALSE, <<>>, Append(row, field), rows)
    ELSE IF text[i] = NL THEN ParseFrom(text, i + 1, FALSE, <<>>, <<>>, Append(rows, Append(row, field)))
    ELSE ParseFrom(text, i + 1, FALSE, Append(field, text[i]), row, rows)

parseCSV(text) == ParseFrom(text, 1, FALSE, <<>>, <<>>, <<>>)

\* the value a record holds under a key
ValueOf(record, key) ==
    record[CHOOSE j \in 1..Len(record) : record[j].key = key].value

\* the parsed rows are the header of field names and one row per record, and
\* every field read back under a header name is the record's value of that
\* name (a number read back as the text String gave it)
ReadsBack(data, rows) ==
    /\ Len(rows) = Len(data) + 1
    /\ \A i \in 1..Len(data) :
          /\ Len(rows[i + 1]) = Len(rows[1])
          /\ {rows[1][j] : j \in 1..Len(rows[1])} = {<<data[i][j].key>> : j \in 1..Len(data[i])}
          /\ \A j \in 1..Len(rows[1]) :
                rows[i + 1][j] = StringOf(ValueOf(data[i], rows[1][j][1]))

\* C9: every result set, of any size, exported with convertToCSV and parsed
\* back gives one row per record under the header's names with field values
\* identical to the originals, doubled quotes restored.
C9_CsvRoundTrip ==
    csvOut # NoCsv =>
        /\ csvOut.state = "text"
        /\ ReadsBack(csvIn, parseCSV(csvOut.text))

\* The part of C9 the code keeps: a result set that is not empty and whose
\* records all list their keys in the order of the first reads back
\* identically, whatever quotes, commas and line breaks its strings hold.
C9_NonEmptySameOrderRoundTrip ==
    (/\ csvOut # NoCsv
     /\ csvIn # <<>>
     /\ \A i \in 1..Len(csvIn) : ObjectKeys(csvIn[i]) = ObjectKeys(csvIn[1])) =>
        /\ csvOut.state = "text"
        /\ ReadsBack(csvIn, parseCSV(csvOut.text))

---------------------------------------------------------------------------
(* C11 *)

\* the label of the option with value v
LabelOf(options, v) ==
    options[CHOOSE i \in 1..Len(options) : options[i].value = v].label

\* the values of the options other than 'custom'
Presets(options) == {options[i].value : i \in 1..Len(options)} \ {"custom"}

\* what a supplied choice is to be rendered as: a preset as its label, the
\* value 'custom' as the custom free text
RenderedAs(options, choice, custom) ==
    IF choice = Str("custom") THEN custom
    ELSE IF choice.v \in Presets(options) THEN Str(LabelOf(options, choice.v))
    ELSE Undefined

\* the lines of the three details taken as supplied whenever their own field
\* is non-empty
SuppliedLines(d) ==
    (IF Truthy(Get(d, "targetAudience"))
     THEN <<[caption |-> "Target Audience",
             text |-> RenderedAs(audienceOptions, Get(d, "targetAudience"),
                                 Get(d, "customTargetAudience"))]>>
     ELSE <<>>)
    \o (IF Truthy(Get(d, "brandTone"))
        THEN <<[caption |-> "Brand Tone/Voice",
                text |-> RenderedAs(toneOptions, Get(d, "brandTone"),
                                    Get(d, "customBrandTone"))]>>
        ELSE <<>>)
    \o (IF Truthy(Get(d, "keyMessage"))
        THEN <<[caption |-> "Key Message/USP", text |-> Get(d, "keyMessage")]>>
        ELSE <<>>)

\* the lines among them that have a text to show: a choice that is no option,
\* or 'custom' with no custom text, has none
ShownLines(d) ==
    SelectSeq(SuppliedLines(d), LAMBDA l : Truthy(l.text))

\* the block is returned and lists exactly these lines, or they are none and
\* the empty string is returned
ReturnsBlockOf(lines) ==
    /\ detailsOut.result.block <=> lines # <<>>
    /\ Len(detailsOut.result.lines) = Len(lines)
    /\ \A i \in 1..Len(lines) :
          /\ detailsOut.result.lines[i].caption = lines[i].caption
          /\ Str(detailsOut.result.lines[i].text) = lines[i].text

\* C11 as stated: the block is returned if and only if at least one of target
\* audience, brand tone or key message is supplied, and it lists exactly the
\* supplied ones, for all preset, custom, empty and unrecognised values.
C11_BlockIffSupplied ==
    detailsOut # NoInstructions => ReturnsBlockOf(SuppliedLines(detailsIn))

\* C11 as amended: the block is returned if and only if at least one of the
\* three has a text to show - a preset audience or tone (its label), the
\* value 'custom' with a non-empty custom text (that text), a non-empty key
\* message - and it lists exactly those, in that order; an unrecognised
\* value, or 'custom' with no custom text, adds no line, and with no line the
\* empty string is returned.
C11_BlockIffShown ==
    detailsOut # NoInstructions => ReturnsBlockOf(ShownLines(detailsIn))

\* an unrecognised audience, a custom tone with its text and no key message
\* gave the block with the tone's line alone
C11_Witness ==
    /\ detailsOut # NoInstructions
    /\ Get(detailsIn, "targetAudience") = Str("aliens")
    /\ Get(detailsIn, "brandTone") = Str("custom")
    /\ Get(detailsIn, "customBrandTone") = Str("dry")
    /\ ~Truthy(Get(detailsIn, "keyMessage"))
    /\ detailsOut.result.block
    /\ detailsOut.result.lines = <<[caption |-> "Brand Tone/Voice", text |-> "dry"]>>

---------------------------------------------------------------------------
(* C12 *)

\* the call is over: it returned or threw
Called == cpc \in {"returned", "thrown"}

\* response.ok
Ok(rsp) == rsp.status \in 200..299

\* the body is JSON for an object with a non-empty error text
HasErrorText(rsp) ==
    /\ rsp.kind = "json"
    /\ rsp.body.t = "object"
    /\ "error" \in DOMAIN rsp.body.v
    /\ rsp.body.v.error # ""

\* the call threw an Error whose message opens with the fixed words
ThrewCommunicationError ==
    /\ cpc = "thrown"
    /\ clientOutcome.kind = "thrown"
    /\ clientOutcome.prefix
         = "Failed to communicate with the analysis service. Please try again later."

\* the message holds the server's error text, or the status code when the
\* body has none
HoldsErrorTextOrStatus ==
    IF HasErrorText(response)
    THEN clientOutcome.details = [text |-> response.body.v.error, status |-> 0]
    ELSE clientOutcome.details.status = response.status

\* the same, but for a body that is no JSON, where the message holds the
\* fixed words of the fallback and neither the body's text nor the status
HoldsErrorTextStatusOrFallback ==
    IF response.kind = "json" THEN HoldsErrorTextOrStatus
    ELSE clientOutcome.details
           = [text |-> "An unknown error occurred on the server.", status |-> 0]

\* results are returned only for an ok response, and every response that is
\* not ok, like every failed fetch, ends in the thrown Error
ThrowsUnlessOk(holds) ==
    Called =>
        /\ clientOutcome.kind = "returned" => (response # NoResponse /\ Ok(response))
        /\ response = NoResponse =>
              /\ ThrewCommunicationError
              /\ clientOutcome.details.text = "TypeError: Failed to fetch"
        /\ (response # NoResponse /\ ~Ok(response)) => (ThrewCommunicationError /\ holds)

\* C12 as stated: a result array is returned only when the response is ok;
\* every non-ok response (400, 405, 500) and every transport failure throws
\* an Error that begins 'Failed to communicate with the analysis service' and
\* contains the server's error text, or the status code when the body has none.
C12_ThrowsWithServerText == ThrowsUnlessOk(HoldsErrorTextOrStatus)

\* C12 as amended: the same, except that the message contains the server's
\* error text only when the body is JSON with a non-empty error field, the
\* status code when the JSON body has no such field, and, when the body is
\* not JSON (as the 405's text body), the fixed words 'An unknown error
\* occurred on the server.' with neither the body's text nor the status code.
C12_ThrowsWithTextStatusOrFallback == ThrowsUnlessOk(HoldsErrorTextStatusOrFallback)

\* the 400 of the validation reached the caller as the thrown message
C12_Witness ==
    /\ response = MissingParameters
    /\ ThrewCommunicationError
    /\ clientOutcome.details.text = "Missing required parameters in request body."
    /\ fetchCount = 1

====
